---------------------------- MODULE Spec2Model ----------------------------
(***************************************************************************)
(* A model of wheel2conda (src/wheel2conda.py): main() unpacks one wheel,  *)
(* validates it and builds one conda archive per (platform, bitness,       *)
(* python version).                                                        *)
(*                                                                         *)
(* A Python str is a sequence of tokens (TLA+ strings).  The separators    *)
(* the code splits, counts or concatenates on ("/", ":", "-", ".", "..")   *)
(* are always tokens of their own, and strings that the code lowercases or *)
(* matches by prefix are written one character per token, so that split,   *)
(* join, startswith, endswith, lower, replace and normpath are computed on *)
(* the sequence as the code computes them on the characters.               *)
(***************************************************************************)
EXTENDS Integers, Sequences, FiniteSets, TLC

(* ------------------------------ bounds -------------------------------- *)

\* longest [console_scripts] section of an input wheel
MaxEntryPoints == 2

\* most Tag lines in the WHEEL file of an input wheel
MaxTags == 2

(* ------------------------------- state -------------------------------- *)

\* the PackageBuilder last constructed: main()'s variable pb.  The rest of
\* the state is declared with main(), below.
VARIABLE pb

(* ------------------------- str / list helpers ------------------------- *)

\* str.startswith(p)
StartsWith(s, p) == Len(s) >= Len(p) /\ SubSeq(s, 1, Len(p)) = p

\* str.endswith(p)
EndsWith(s, p) == Len(s) >= Len(p) /\ SubSeq(s, Len(s) - Len(p) + 1, Len(s)) = p

\* str.count(sep)
Count(s, sep) == Cardinality({i \in 1..Len(s) : s[i] = sep})

\* index of the first token sep of s (0 when there is none)
Find(s, sep) ==
    IF \E i \in 1..Len(s) : s[i] = sep
    THEN CHOOSE i \in 1..Len(s) : s[i] = sep /\ \A j \in 1..(i - 1) : s[j] # sep
    ELSE 0

\* str.split(sep)
RECURSIVE Split(_, _)
Split(s, sep) ==
    IF Find(s, sep) = 0 THEN <<s>>
    ELSE <<SubSeq(s, 1, Find(s, sep) - 1)>>
             \o Split(SubSeq(s, Find(s, sep) + 1, Len(s)), sep)

\* str.split(sep, 1)
Split1(s, sep) ==
    IF Find(s, sep) = 0 THEN <<s>>
    ELSE <<SubSeq(s, 1, Find(s, sep) - 1), SubSeq(s, Find(s, sep) + 1, Len(s))>>

\* sep.join(parts)
RECURSIVE JoinWith(_, _)
JoinWith(sep, parts) ==
    IF parts = <<>> THEN <<>>
    ELSE IF Len(parts) = 1 THEN parts[1]
    ELSE parts[1] \o <<sep>> \o JoinWith(sep, Tail(parts))

\* str.strip(): leading and trailing blanks and line ends removed
RECURSIVE Strip(_)
Strip(s) ==
    IF s = <<>> THEN s
    ELSE IF Head(s) \in {" ", "\n"} THEN Strip(Tail(s))
    ELSE IF s[Len(s)] \in {" ", "\n"} THEN Strip(SubSeq(s, 1, Len(s) - 1))
    ELSE s

\* str.replace(tok, '')
Remove(s, tok) == SelectSeq(s, LAMBDA t : t # tok)

UpperCase == <<"A", "B", "C", "D", "E", "F", "G", "H", "I", "J", "K", "L", "M",
               "N", "O", "P", "Q", "R", "S", "T", "U", "V", "W", "X", "Y", "Z">>

LowerCase == <<"a", "b", "c", "d", "e", "f", "g", "h", "i", "j", "k", "l", "m",
               "n", "o", "p", "q", "r", "s", "t", "u", "v", "w", "x", "y", "z">>

\* str.lower()
Lower(s) ==
    [i \in 1..Len(s) |->
        IF \E k \in 1..Len(UpperCase) : UpperCase[k] = s[i]
        THEN LowerCase[CHOOSE k \in 1..Len(UpperCase) : UpperCase[k] = s[i]]
        ELSE s[i]]

\* the concatenation of a list of lists
RECURSIVE Concat(_)
Concat(ss) == IF ss = <<>> THEN <<>> ELSE Head(ss) \o Concat(Tail(ss))

\* whether s is t with some entries left out, order kept
RECURSIVE IsSubSeq(_, _)
IsSubSeq(s, t) ==
    IF s = <<>> THEN TRUE
    ELSE IF t = <<>> THEN FALSE
    ELSE IF Head(s) = Head(t) THEN IsSubSeq(Tail(s), Tail(t))
    ELSE IsSubSeq(s, Tail(t))

IsPrefix(s, t) == Len(s) <= Len(t) /\ SubSeq(t, 1, Len(s)) = s

Range(s) == {s[i] : i \in 1..Len(s)}

(* ------------------------------ posixpath ----------------------------- *)

\* posixpath.join(a, b)
Join2(a, b) ==
    IF StartsWith(b, <<"/">>) THEN b
    ELSE IF a = <<>> \/ EndsWith(a, <<"/">>) THEN a \o b
    ELSE a \o <<"/">> \o b

\* posixpath.join(a, *p)
RECURSIVE PosixJoin(_, _)
PosixJoin(a, p) == IF p = <<>> THEN a ELSE PosixJoin(Join2(a, Head(p)), Tail(p))

\* the component loop of posixpath.normpath
RECURSIVE NormComps(_, _, _)
NormComps(comps, new, initial_slashes) ==
    IF comps = <<>> THEN new
    ELSE LET comp == Head(comps) IN
         IF comp \in {<<>>, <<".">>} THEN NormComps(Tail(comps), new, initial_slashes)
         ELSE IF comp # <<"..">>
                 \/ (~initial_slashes /\ new = <<>>)
                 \/ (new # <<>> /\ new[Len(new)] = <<"..">>)
              THEN NormComps(Tail(comps), Append(new, comp), initial_slashes)
         ELSE IF new # <<>>
              THEN NormComps(Tail(comps), SubSeq(new, 1, Len(new) - 1), initial_slashes)
         ELSE NormComps(Tail(comps), new, initial_slashes)

\* posixpath.normpath(path)
NormPath(path) ==
    IF path = <<>> THEN <<".">>
    ELSE LET initial_slashes == StartsWith(path, <<"/">>)
             joined == JoinWith("/", NormComps(Split(path, "/"), <<>>, initial_slashes))
             res == IF initial_slashes THEN <<"/">> \o joined ELSE joined
         IN  IF res = <<>> THEN <<".">> ELSE res

(* --------------------------- module constants ------------------------- *)

\* Platform (lines 20-23), by member name
Platform == {"linux", "osx", "win"}

PREFIX == <<"/opt/anaconda1anaconda2anaconda3">>

PYTHON_VERSIONS == << <<"3", ".", "5">>, <<"3", ".", "4">>, <<"2", ".", "7">> >>

PLATFORM_PAIRS ==
    << [platform |-> "linux", bitness |-> <<"64">>],
       [platform |-> "linux", bitness |-> <<"32">>],
       [platform |-> "osx",   bitness |-> <<"64">>],
       [platform |-> "win",   bitness |-> <<"64">>],
       [platform |-> "win",   bitness |-> <<"32">>] >>

\* script_template.format(interpreter=..., module=..., func=...)
script_template(interpreter, module, func) ==
    <<"#!">> \o interpreter \o <<"\n">>
    \o <<"from ">> \o module \o <<" import ">> \o func \o <<"\n">>
    \o <<"if __name__ == '__main__':", "\n">>
    \o <<"    ">> \o func \o <<"()", "\n">>

\* CaseSensitiveContextParser sets an attribute named optionxfrom, which
\* configparser never reads: the parser keeps ConfigParser.optionxform,
\* which lowercases every option name.
optionxform(optionstr) == Lower(optionstr)

(* --------------------------- the file system -------------------------- *)

\* A directory entry of the unpacked wheel: a regular file with its contents,
\* or a directory with its listing (kids, in the order the OS lists them).
File(name, data) == [name |-> name, isdir |-> FALSE, kids |-> <<>>, data |-> data]

Dir(name, kids) == [name |-> name, isdir |-> TRUE, kids |-> kids, data |-> <<>>]

\* (path / name).exists()
HasChild(node, name) == \E i \in 1..Len(node.kids) : node.kids[i].name = name

\* path / name
Child(node, name) ==
    node.kids[CHOOSE i \in 1..Len(node.kids) : node.kids[i].name = name]

\* os.walk(d) as record_file_or_dir consumes it: the pairs <<rel_dirpath, f>>,
\* a directory's own files first, then each subdirectory in turn (top-down).
RECURSIVE Walk(_, _)
Walk(node, rel_dirpath) ==
    LET files == SelectSeq(node.kids, LAMBDA k : ~k.isdir)
        dirs  == SelectSeq(node.kids, LAMBDA k : k.isdir)
        sub(k) == IF rel_dirpath = <<".">> THEN k.name
                  ELSE rel_dirpath \o <<"/">> \o k.name
    IN  [i \in 1..Len(files) |-> <<rel_dirpath, files[i].name>>]
        \o Concat([i \in 1..Len(dirs) |-> Walk(dirs[i], sub(dirs[i]))])

(* ------------------------------ tarfile ------------------------------- *)

\* tarfile.TarInfo(name) with its contents
Member(name, isdir, data) == [name |-> name, isdir |-> isdir, data |-> data]

\* exclude_record(ti) of add_module: TRUE when the filter returns None
exclude_record(ti_name) == EndsWith(ti_name, <<"RECORD">>)

\* tf.add(str(src), arcname=arcname, filter=...): the members added, the entry
\* itself and then, recursively, a directory's listing; an entry the filter
\* drops is skipped with everything under it.  filtered says whether
\* exclude_record is the filter.
RECURSIVE TarAdd(_, _, _)
TarAdd(src, arcname, filtered) ==
    IF filtered /\ exclude_record(arcname) THEN <<>>
    ELSE IF ~src.isdir THEN <<Member(arcname, FALSE, src.data)>>
    ELSE <<Member(arcname, TRUE, <<>>)>>
         \o Concat([i \in 1..Len(src.kids) |->
                TarAdd(src.kids[i], arcname \o <<"/">> \o src.kids[i].name, filtered)])

(* --------------------------- WheelContents ---------------------------- *)

\* _read_metadata: the loop over the lines, res the dict built so far
RECURSIVE read_lines(_, _)
read_lines(lines, res) ==
    IF lines = <<>> \/ Strip(Head(lines)) = <<>> THEN res
    ELSE LET kv == Split1(Strip(Head(lines)), ":")
             k  == Strip(kv[1])
             v  == Strip(kv[2])
         IN  read_lines(Tail(lines),
                        IF k \in DOMAIN res
                        THEN [res EXCEPT ![k] = Append(@, v)]
                        ELSE res @@ (k :> <<v>>))

\* _read_metadata(path): key -> list of values
read_metadata(file) == read_lines(file.data, <<>>)

\* whether find_dist_info() finds a .dist-info entry
has_dist_info(unpacked) ==
    \E i \in 1..Len(unpacked) : EndsWith(unpacked[i].name, <<".dist-info">>)

\* find_dist_info(): the first .dist-info entry that iterdir() lists
find_dist_info(unpacked) ==
    unpacked[CHOOSE i \in 1..Len(unpacked) :
                /\ EndsWith(unpacked[i].name, <<".dist-info">>)
                /\ \A j \in 1..(i - 1) : ~EndsWith(unpacked[j].name, <<".dist-info">>)]

\* WheelContents.__init__: the exception it raises ("none": it returns)
wheel_contents_error(unpacked) ==
    IF ~has_dist_info(unpacked) THEN "BadWheelError: Didn't find .dist-info directory"
    ELSE IF ~find_dist_info(unpacked).isdir THEN "NotADirectoryError"
    ELSE IF ~HasChild(find_dist_info(unpacked), <<"METADATA">>) THEN "FileNotFoundError"
    ELSE "none"

\* the loop of check() over iterdir(): the error it raises, or "none"
RECURSIVE check_entries(_, _, _)
check_entries(xs, dist_info, data_dir) ==
    IF xs = <<>> THEN
        IF dist_info = <<>> THEN "BadWheelError: Didn't find .dist-info directory"
        ELSE "none"
    ELSE LET x == Head(xs)
             isDist == EndsWith(x.name, <<".dist-info">>)
             isData == EndsWith(x.name, <<".data">>)
         IN  IF isDist /\ ~x.isdir THEN "BadWheelError: .dist-info not a directory"
             ELSE IF isDist /\ dist_info # <<>>
                  THEN "BadWheelError: Multiple .dist-info directories"
             ELSE IF isData /\ ~x.isdir THEN "BadWheelError: .data not a directory"
             ELSE IF isData /\ data_dir # <<>>
                  THEN "BadWheelError: Multiple .data directories"
             ELSE check_entries(Tail(xs),
                                IF isDist THEN <<x>> ELSE dist_info,
                                IF isData THEN <<x>> ELSE data_dir)

\* check() as it would be without its tests of the WHEEL and METADATA fields
check_entries_only(unpacked, metadata) == check_entries(unpacked, <<>>, <<>>)

\* check(): the exception it raises ("none": the wheel passes)
check(unpacked, metadata) ==
    IF check_entries(unpacked, <<>>, <<>>) # "none"
    THEN check_entries(unpacked, <<>>, <<>>)
    ELSE IF ~HasChild(find_dist_info(unpacked), <<"WHEEL">>) THEN "FileNotFoundError"
    ELSE LET wheel_metadata == read_metadata(Child(find_dist_info(unpacked), <<"WHEEL">>))
         IN  IF <<"Wheel-Version">> \notin DOMAIN wheel_metadata THEN "KeyError"
             ELSE IF wheel_metadata[<<"Wheel-Version">>][1] # <<"1.0">>
                  THEN "BadWheelError: wheel2conda only knows about wheel format 1.0"
             ELSE IF <<"Root-Is-Purelib">> \notin DOMAIN wheel_metadata THEN "KeyError"
             ELSE IF Lower(wheel_metadata[<<"Root-Is-Purelib">>][1]) # <<"t", "r", "u", "e">>
                  THEN "BadWheelError: Can't currently autoconvert packages with platlib"
             ELSE IF <<"Name">> \notin DOMAIN metadata
                  THEN "BadWheelError: Missing required metadata field: Name"
             ELSE IF <<"Version">> \notin DOMAIN metadata
                  THEN "BadWheelError: Missing required metadata field: Version"
             ELSE "none"

\* [p for p in PYTHON_VERSIONS if not p.startswith('2.')]
not_py2 == SelectSeq(PYTHON_VERSIONS, LAMBDA p : ~StartsWith(p, <<"2", ".">>))

\* [p for p in PYTHON_VERSIONS if p.startswith('2.')]
only_py2 == SelectSeq(PYTHON_VERSIONS, LAMBDA p : StartsWith(p, <<"2", ".">>))

\* the WHEEL half of filter_compatible_pythons (lines 315-322)
filter_by_tags(wheel_metadata) ==
    LET py_tags == {Split(t, "-")[1] : t \in Range(wheel_metadata[<<"Tag">>])}
    IN  IF py_tags = {<<"py3">>} THEN not_py2
        ELSE IF py_tags = {<<"py2">>} THEN only_py2
        ELSE PYTHON_VERSIONS

\* filter_compatible_pythons as it would be did the WHEEL tags come first
filter_compatible_pythons_tags_first(unpacked, metadata) ==
    LET rp == metadata[<<"Requires-Python">>][1]
        by_tags == filter_by_tags(read_metadata(Child(find_dist_info(unpacked), <<"WHEEL">>)))
    IN  IF by_tags # PYTHON_VERSIONS THEN by_tags
        ELSE IF <<"Requires-Python">> \in DOMAIN metadata
        THEN IF StartsWith(rp, <<"3">>) \/ StartsWith(rp, <<">", "3">>)
                                        \/ StartsWith(rp, <<">", "=", "3">>)
             THEN not_py2
             ELSE IF rp \in {<<"<", "3">>, <<"<", "3", ".", "0">>}
             THEN only_py2
             ELSE by_tags
        ELSE by_tags

\* filter_compatible_pythons()
filter_compatible_pythons(unpacked, metadata) ==
    LET rp == metadata[<<"Requires-Python">>][1]
        by_tags == filter_by_tags(read_metadata(Child(find_dist_info(unpacked), <<"WHEEL">>)))
    IN  IF <<"Requires-Python">> \in DOMAIN metadata
        THEN IF StartsWith(rp, <<"3">>) \/ StartsWith(rp, <<">", "3">>)
                                        \/ StartsWith(rp, <<">", "=", "3">>)
             THEN not_py2
             ELSE IF rp \in {<<"<", "3">>, <<"<", "3", ".", "0">>}
             THEN only_py2
             ELSE by_tags
        ELSE by_tags

(* --------------------------- PackageBuilder --------------------------- *)
(* The methods below act on a build state s = [pb, tf, manifest, err]:     *)
(* pb the PackageBuilder's fields, tf the members written to the open      *)
(* TarFile so far, manifest the log of record_file calls (a history of     *)
(* <<arcname, has_prefix>>, kept for the claims), err the exception raised *)
(* ("none" while none was).                                                *)

\* __init__ as it would be were the three lists class attributes, shared by
\* every PackageBuilder
new_builder_shared_lists(python_version, platform, bitness) ==
    [python_version |-> python_version, platform |-> platform, bitness |-> bitness,
     files |-> pb.files, has_prefix_files |-> pb.has_prefix_files,
     py_record_extra |-> pb.py_record_extra, build_no |-> 0]

\* PackageBuilder.__init__
new_builder(python_version, platform, bitness) ==
    [python_version |-> python_version, platform |-> platform, bitness |-> bitness,
     files |-> <<>>, has_prefix_files |-> <<>>, py_record_extra |-> <<>>,
     build_no |-> 0]

\* record_file as it would be did it not test has_prefix
record_file_unflagged(s, arcname, has_prefix) ==
    [s EXCEPT !.pb.files = Append(@, arcname),
              !.pb.has_prefix_files = Append(@, arcname),
              !.manifest = Append(@, [path |-> arcname, has_prefix |-> has_prefix])]

\* record_file(arcname, has_prefix)
record_file(s, arcname, has_prefix) ==
    [s EXCEPT !.pb.files = Append(@, arcname),
              !.pb.has_prefix_files = IF has_prefix THEN Append(@, arcname) ELSE @,
              !.manifest = Append(@, [path |-> arcname, has_prefix |-> has_prefix])]

\* the loops of record_file_or_dir over os.walk: walked is what is left
RECURSIVE record_walked(_, _, _)
record_walked(s, arcname, walked) ==
    IF walked = <<>> THEN s
    ELSE record_walked(
            record_file(s, NormPath(PosixJoin(arcname, Head(walked))), FALSE),
            arcname, Tail(walked))

\* record_file_or_dir as it would be did it not walk a directory
record_file_or_dir_no_walk(s, arcname, src) == record_file(s, arcname, FALSE)

\* record_file_or_dir(arcname, src)
record_file_or_dir(s, arcname, src) ==
    IF src.isdir THEN record_walked(s, arcname, Walk(src, <<".">>))
    ELSE record_file(s, arcname, FALSE)

\* site_packages_path()
site_packages_path(self) ==
    IF self.platform = "win" THEN <<"Lib", "/", "site-packages", "/">>
    ELSE <<"lib", "/", "python">> \o self.python_version \o <<"/", "site-packages", "/">>

\* scripts_path()
scripts_path(self) ==
    IF self.platform = "win" THEN <<"Scripts", "/">> ELSE <<"bin", "/">>

\* tf.add(...) / tf.addfile(...): the members appended to the archive
tar_write(s, members) == [s EXCEPT !.tf = @ \o members]

\* the inner loop of _add_data_dir: for f in d.iterdir()
RECURSIVE add_data_files(_, _)
add_data_files(s, fs) ==
    IF fs = <<>> THEN s
    ELSE add_data_files(
            record_file_or_dir(tar_write(s, TarAdd(Head(fs), Head(fs).name, FALSE)),
                               Head(fs).name, Head(fs)),
            Tail(fs))

\* _add_data_dir(tf, src): ds is what is left of src.iterdir()
RECURSIVE add_data_dir(_, _)
add_data_dir(s, ds) ==
    IF ds = <<>> THEN s
    ELSE IF Head(ds).name = <<"data">>
         THEN add_data_dir(add_data_files(s, Head(ds).kids), Tail(ds))
         ELSE [s EXCEPT !.err = "NotImplementedError"]

\* the loop of add_module: srcs is what is left of unpacked.iterdir()
RECURSIVE add_entries(_, _)
add_entries(s, srcs) ==
    IF srcs = <<>> \/ s.err # "none" THEN s
    ELSE LET src == Head(srcs)
             dst == site_packages_path(s.pb) \o src.name
         IN  IF EndsWith(src.name, <<".data">>)
             THEN add_entries(add_data_dir(s, src.kids), Tail(srcs))
             ELSE IF EndsWith(src.name, <<".dist-info">>)
             THEN add_entries(
                    record_file_or_dir(tar_write(s, TarAdd(src, dst, TRUE)), dst, src),
                    Tail(srcs))
             ELSE add_entries(
                    record_file_or_dir(tar_write(s, TarAdd(src, dst, FALSE)), dst, src),
                    Tail(srcs))

\* add_module(tf)
add_module(s, unpacked) == add_entries(s, unpacked)

\* hashlib.sha256(contents).digest(), urlsafe base64, '=' stripped: kept
\* symbolic, one digest per contents
Digest(contents) == <<"b64(sha256(">> \o contents \o <<"))">>

\* len(contents), kept symbolic
ByteLen(contents) == <<"len(">> \o contents \o <<")">>

\* _py_record_file(relpath, contents)
py_record_file(s, relpath, contents) ==
    [s EXCEPT !.pb.py_record_extra =
        Append(@, <<relpath, <<"sha256=">> \o Digest(contents), ByteLen(contents)>>)]

\* _write_script_unix(tf, name, contents)
write_script_unix(s, name, contents) ==
    LET path == scripts_path(s.pb) \o name
    IN  py_record_file(
            record_file(tar_write(s, <<Member(path, FALSE, contents)>>), path, TRUE),
            path, contents)

\* the bytes of the file win_cli_launchers.find_exe(arch) names
launcher_stub(arch) == <<"cli-", arch, ".exe">>

\* _write_script_windows(tf, name, contents)
write_script_windows(s, name, contents) ==
    LET s1   == write_script_unix(s, name \o <<"-script", ".py">>, contents)
        arch == IF s.pb.bitness = <<"64">> THEN "x64" ELSE "x86"
        dst  == scripts_path(s.pb) \o name \o <<".exe">>
    IN  py_record_file(
            record_file(tar_write(s1, <<Member(dst, FALSE, launcher_stub(arch))>>),
                        dst, FALSE),
            dst, launcher_stub(arch))

\* cp.read([ep_file]) reading one file: lines are its section headers
\* [kind "section", key the section name] and options [kind "option", key,
\* value]; r is [err, cur, sections], sections mapping a section name to its
\* options <<optionxform(key), value>> in file order.  The parser is strict:
\* an option repeated in a section is a DuplicateOptionError.
RECURSIVE read_ini(_, _)
read_ini(lines, r) ==
    IF lines = <<>> \/ r.err # "none" THEN r
    ELSE LET l == Head(lines) IN
         IF l.kind = "section"
         THEN read_ini(Tail(lines),
                       [r EXCEPT !.cur = l.key,
                                 !.sections = IF l.key \in DOMAIN @ THEN @
                                              ELSE @ @@ (l.key :> <<>>)])
         ELSE IF \E i \in 1..Len(r.sections[r.cur]) :
                     r.sections[r.cur][i][1] = optionxform(l.key)
              THEN [r EXCEPT !.err = "DuplicateOptionError"]
              ELSE read_ini(Tail(lines),
                            [r EXCEPT !.sections[r.cur] =
                                Append(@, <<optionxform(l.key), l.value>>)])

\* the loop of create_scripts over cp['console_scripts'].items()
RECURSIVE write_scripts(_, _)
write_scripts(s, items) ==
    IF items = <<>> THEN s
    ELSE LET name == Head(items)[1]
             ep   == Head(items)[2]
             mod  == Split(ep, ":")[1]
             func == Split(ep, ":")[2]
             scr  == script_template(PREFIX \o <<"/bin/python">>, mod, func)
         IN  IF Count(ep, ":") # 1 THEN [s EXCEPT !.err = "ValueError"]
             ELSE IF s.pb.platform = "win"
                  THEN write_scripts(write_script_windows(s, name, scr), Tail(items))
                  ELSE write_scripts(write_script_unix(s, name, scr), Tail(items))

\* create_scripts(tf)
create_scripts(s, unpacked) ==
    LET dist_info == find_dist_info(unpacked)
        cp == read_ini(Child(dist_info, <<"entry_points", ".txt">>).data,
                       [err |-> "none", cur |-> <<>>, sections |-> <<>>])
    IN  IF ~HasChild(dist_info, <<"entry_points", ".txt">>) THEN s
        ELSE IF cp.err # "none" THEN [s EXCEPT !.err = cp.err]
        ELSE IF <<"console_scripts">> \notin DOMAIN cp.sections
             THEN [s EXCEPT !.err = "KeyError"]
        ELSE write_scripts(s, cp.sections[<<"console_scripts">>])

\* prefix_from_site_pkgs as it would be with one depth for every platform
prefix_from_site_pkgs_win_only(self) == <<"..", "/", "..">>

\* the relative path from site-packages up to the install prefix
prefix_from_site_pkgs(self) ==
    IF self.platform = "win" THEN <<"..", "/", "..">>
    ELSE <<"..", "/", "..", "/", "..">>

\* the row write_pep376_record writes for one row of the wheel's RECORD
rewrite_row(self, row) ==
    LET path_parts == Split(row[1], "/")
    IN  IF Len(path_parts) > 2
           /\ EndsWith(path_parts[1], <<".data">>)
           /\ path_parts[2] = <<"data">>
        THEN [row EXCEPT ![1] = PosixJoin(prefix_from_site_pkgs(self),
                                          SubSeq(path_parts, 3, Len(path_parts)))]
        ELSE row

\* the row write_pep376_record writes for one row of py_record_extra
extra_row(self, row) ==
    <<PosixJoin(prefix_from_site_pkgs(self), <<row[1]>>)>> \o Tail(row)

\* the rows of the RECORD that write_pep376_record writes
installed_record(self, wheel_record) ==
    [i \in 1..Len(wheel_record) |-> rewrite_row(self, wheel_record[i])]
    \o [i \in 1..Len(self.py_record_extra) |-> extra_row(self, self.py_record_extra[i])]

\* write_pep376_record(tf)
write_pep376_record(s, unpacked) ==
    LET dist_info == find_dist_info(unpacked)
        record_path == site_packages_path(s.pb) \o dist_info.name \o <<"/", "RECORD">>
    IN  IF ~HasChild(dist_info, <<"RECORD">>) THEN [s EXCEPT !.err = "FileNotFoundError"]
        ELSE tar_write(s, <<Member(record_path, FALSE,
                    installed_record(s.pb, Child(dist_info, <<"RECORD">>).data))>>)

\* '{}'.format(n) for the build number
format_int(n) == <<(<<"0", "1", "2", "3", "4", "5", "6", "7", "8", "9">>)[n + 1]>>

\* the dict ix of write_index, as json.dumps(..., sort_keys=True) orders it
index_json(self, metadata) ==
    << <<"arch", IF self.bitness = <<"64">> THEN <<"x86_64">> ELSE <<"x86">> >>,
       <<"build", <<"py">> \o Remove(self.python_version, ".")
                           \o <<"_">> \o format_int(self.build_no)>>,
       <<"build_number", format_int(self.build_no)>>,
       <<"depends", <<"python ">> \o self.python_version \o <<"*">> >>,
       <<"license", <<"UNKNOWN">> >>,
       <<"name", metadata[<<"Name">>][1]>>,
       <<"platform", <<self.platform>> >>,
       <<"subdir", <<self.platform, "-">> \o self.bitness>>,
       <<"version", metadata[<<"Version">>][1]>> >>

\* write_index(tf)
write_index(s, metadata) ==
    tar_write(s, <<Member(<<"info", "/", "index", ".json">>, FALSE,
                          index_json(s.pb, metadata))>>)

\* write_has_prefix_list(tf)
write_has_prefix_list(s) ==
    LET lines == [i \in 1..Len(s.pb.has_prefix_files) |->
                    PREFIX \o <<" text ">> \o s.pb.has_prefix_files[i]]
    IN  tar_write(s, <<Member(<<"info", "/", "has_prefix">>, FALSE,
                              JoinWith("\n", lines))>>)

\* write_files_list(tf)
write_files_list(s) ==
    tar_write(s, <<Member(<<"info", "/", "files">>, FALSE,
                          JoinWith("\n", s.pb.files))>>)

(* ------------------------------ build() ------------------------------- *)

\* build() as it would be without its call of create_scripts
build_next_no_scripts(step) ==
    CASE step = "Init"              -> "ScriptsCreated"
      [] step = "ModulesCopied"     -> "ScriptsCreated"
      [] step = "ScriptsCreated"    -> "RecordWritten"
      [] step = "RecordWritten"     -> "IndexWritten"
      [] step = "IndexWritten"      -> "PrefixListWritten"
      [] step = "PrefixListWritten" -> "FileListWritten"
      [] step = "FileListWritten"   -> "Done"

\* build(fileobj): the position after each of its six calls, and after the
\* with block has closed the archive
build_next(step) ==
    CASE step = "Init"              -> "ModulesCopied"
      [] step = "ModulesCopied"     -> "ScriptsCreated"
      [] step = "ScriptsCreated"    -> "RecordWritten"
      [] step = "RecordWritten"     -> "IndexWritten"
      [] step = "IndexWritten"      -> "PrefixListWritten"
      [] step = "PrefixListWritten" -> "FileListWritten"
      [] step = "FileListWritten"   -> "Done"

(* ------------------------------- main() ------------------------------- *)

\* Path(platform.name + '-' + bitness)
output_dir(pair) == <<pair.platform, "-">> \o pair.bitness

\* d / '{name}-{version}-py{xy}_0.tar.bz2'
output_path(pair, py_version, metadata) ==
    output_dir(pair) \o <<"/">> \o metadata[<<"Name">>][1] \o <<"-">>
        \o metadata[<<"Version">>][1] \o <<"-", "py">> \o Remove(py_version, ".")
        \o <<"_0", ".tar", ".bz2">>

(* ----------------------------- input wheels --------------------------- *)

DistInfoName == <<"Foo-1.0", ".dist-info">>

OtherDistInfoName == <<"Bar-1.0", ".dist-info">>

DataName == <<"Foo-1.0", ".data">>

OtherDataName == <<"Bar-1.0", ".data">>

foo == <<"f", "o", "o">>

\* the METADATA file: headers, a blank line, a body the reader must not parse
MetadataFile(hasName, hasVersion, rp) ==
    File(<<"METADATA">>,
         << <<"Metadata-Version", ":", " ", "2.0", "\n">> >>
         \o (IF hasName THEN << <<"Name", ":", " ", "Foo", "\n">> >> ELSE <<>>)
         \o (IF hasVersion THEN << <<"Version", ":", " ", "1.0", "\n">> >> ELSE <<>>)
         \o (IF rp # <<>> THEN << <<"Requires-Python", ":", " ">> \o rp \o <<"\n">> >>
             ELSE <<>>)
         \o << <<"\n">>, <<"Name", ":", " ", "body", "\n">>,
               <<"Version", ":", " ", "body", "\n">> >>)

\* the WHEEL file
WheelFile(version, purelib, tags) ==
    File(<<"WHEEL">>,
         << <<"Wheel-Version", ":", " ", version, "\n">>,
            <<"Root-Is-Purelib", ":", " ">> \o purelib \o <<"\n">> >>
         \o [i \in 1..Len(tags) |-> <<"Tag", ":", " ">> \o tags[i] \o <<"\n">>])

\* entry_points.txt with one section and its options
IniLines(section, items) ==
    <<[kind |-> "section", key |-> section, value |-> <<>>]>>
    \o [i \in 1..Len(items) |->
            [kind |-> "option", key |-> items[i][1], value |-> items[i][2]]]

EpKeys == {foo, <<"F", "o", "o">>, <<"b", "a", "r">>}

EpValues == {<<"pkgmod", ":", "main">>, <<"badvalue">>, <<"a", ":", "b", ":", "c">>}

\* every [console_scripts] section of at most MaxEntryPoints options
ConsoleSections ==
    UNION {[1..n -> EpKeys \X EpValues] : n \in 0..MaxEntryPoints}

\* entry_points.txt: absent (<<>>), or its lines
AllEntryPoints ==
    {<<>>, IniLines(<<"gui_scripts">>, << <<foo, <<"pkgmod", ":", "main">> >> >>)}
    \cup {IniLines(<<"console_scripts">>, items) : items \in ConsoleSections}

FewEntryPoints ==
    {<<>>,
     IniLines(<<"console_scripts">>, << <<foo, <<"pkgmod", ":", "main">> >> >>),
     IniLines(<<"console_scripts">>, << <<<<"b", "a", "r">>, <<"pkgmod", ":", "main">> >>,
                                        <<foo, <<"pkgmod", ":", "run">> >> >>)}

Tags == {<<"py3", "-", "none", "-", "any">>, <<"py2", "-", "none", "-", "any">>,
         <<"py2.py3", "-", "none", "-", "any">>,
         <<"cp35", "-", "cp35m", "-", "linux_x86_64">>}

\* the Tag lines of a WHEEL file: at least one, at most MaxTags
TagLists == UNION {[1..n -> Tags] : n \in 1..MaxTags}

\* Requires-Python values (<<>>: the header is absent)
RequiresPythons ==
    {<<>>, <<"3">>, <<"3", ".", "4">>, <<">", "3">>, <<">", "=", "3">>,
     <<">", "=", "3", ".", "3">>, <<"<", "3">>, <<"<", "3", ".", "0">>,
     <<">", "=", "2", ".", "7">>, <<"<", "3", ".", "5">>, <<"<", "=", "2", ".", "7">>,
     <<"~", "=", "3", ".", "4">>, <<"=", "=", "2", ".", "7">>}

\* the contents of a wheel's .data directory, by kind
DataKids(dataKind) ==
    CASE dataKind = "flat" ->
            <<Dir(<<"data">>, <<File(<<"cfg">>, <<"bytes of cfg">>)>>)>>
      [] dataKind = "bin" ->
            <<Dir(<<"data">>, <<Dir(<<"bin">>, <<File(foo, <<"bytes of foo">>)>>),
                                File(<<"cfg">>, <<"bytes of cfg">>)>>)>>
      [] dataKind = "scripts" ->
            <<Dir(<<"scripts">>, <<File(<<"tool">>, <<"bytes of tool">>)>>)>>

\* the top-level .data entries of a wheel
DataEntries(dataKind) ==
    CASE dataKind = "none" -> <<>>
      [] dataKind = "file" -> <<File(DataName, <<"bytes">>)>>
      [] dataKind = "dup"  -> <<Dir(DataName, DataKids("flat")),
                                Dir(OtherDataName, DataKids("flat"))>>
      [] OTHER             -> <<Dir(DataName, DataKids(dataKind))>>

\* the paths of the regular files under node, relative to the wheel's root
RECURSIVE FilePaths(_, _)
FilePaths(node, path) ==
    IF ~node.isdir THEN <<path>>
    ELSE Concat([i \in 1..Len(node.kids) |->
                    FilePaths(node.kids[i], path \o <<"/">> \o node.kids[i].name)])

\* the RECORD of a wheel holding entries: one row per file, and its own
RecordRows(entries) ==
    LET paths == Concat([i \in 1..Len(entries) |->
                            FilePaths(entries[i], entries[i].name)])
    IN  [i \in 1..Len(paths) |->
            <<paths[i], <<"sha256=", "digest of">> \o paths[i], <<"size of">> \o paths[i]>>]
        \o << <<DistInfoName \o <<"/", "RECORD">>, <<>>, <<>> >> >>

Reverse(s) == [i \in 1..Len(s) |-> s[Len(s) + 1 - i]]

\* the listing of an unpacked wheel.  distKind: "dir", "file", "dup" or
\* "none"; dataKind as above; md and wh the METADATA and WHEEL files; eps the
\* lines of entry_points.txt; hasRecord, oldrec: whether .dist-info holds
\* RECORD and a second file whose name ends in RECORD; rev: whether the OS
\* lists the entries the other way round.
Wheel(distKind, dataKind, md, wh, eps, hasRecord, oldrec, rev) ==
    LET mods == <<Dir(<<"pkgmod">>, <<File(<<"__init__", ".py">>, <<"bytes of __init__">>)>>)>>
        kids == <<md, wh>>
                \o (IF eps # <<>> THEN <<File(<<"entry_points", ".txt">>, eps)>> ELSE <<>>)
                \o (IF oldrec THEN <<File(<<"OLD", "RECORD">>, <<"bytes of OLDRECORD">>)>>
                    ELSE <<>>)
        rows == RecordRows(mods \o <<Dir(DistInfoName, kids)>> \o DataEntries(dataKind))
        full == IF hasRecord THEN kids \o <<File(<<"RECORD">>, rows)>> ELSE kids
        dist == CASE distKind = "dir"  -> <<Dir(DistInfoName, full)>>
                  [] distKind = "file" -> <<File(DistInfoName, <<"bytes">>)>>
                  [] distKind = "dup"  -> <<Dir(DistInfoName, full),
                                            Dir(OtherDistInfoName, full)>>
                  [] distKind = "none" -> <<>>
        top  == mods \o dist \o DataEntries(dataKind)
    IN  IF rev THEN Reverse(top) ELSE top

py2any == << <<"py2", "-", "none", "-", "any">> >>

true == <<"t", "r", "u", "e">>

\* wheels that differ in what check() looks at
StructWheels ==
    {Wheel(distKind, dataKind, MetadataFile(hasName, hasVersion, <<>>),
           WheelFile(version, purelib, py2any), <<>>, TRUE, FALSE, FALSE) :
        distKind \in {"dir", "file", "dup", "none"},
        dataKind \in {"none", "flat", "file", "dup"},
        hasName \in BOOLEAN, hasVersion \in BOOLEAN,
        version \in {"1.0", "2.0"},
        purelib \in {true, <<"T", "r", "u", "e">>, <<"f", "a", "l", "s", "e">>}}

\* valid wheels that differ in what the build copies and records
ContentWheels ==
    {Wheel("dir", dataKind, MetadataFile(TRUE, TRUE, <<>>),
           WheelFile("1.0", true, <<tag>>), eps, hasRecord, oldrec, rev) :
        dataKind \in {"none", "flat", "bin", "scripts"},
        tag \in {<<"py3", "-", "none", "-", "any">>, <<"py2", "-", "none", "-", "any">>,
                 <<"py2.py3", "-", "none", "-", "any">>},
        eps \in FewEntryPoints,
        hasRecord \in BOOLEAN, oldrec \in BOOLEAN, rev \in BOOLEAN}

\* valid wheels that differ in their entry points
EntryPointWheels ==
    {Wheel("dir", dataKind, MetadataFile(TRUE, TRUE, <<>>),
           WheelFile("1.0", true, py2any), eps, TRUE, FALSE, FALSE) :
        dataKind \in {"none", "bin"}, eps \in AllEntryPoints}

\* valid wheels that differ in what filter_compatible_pythons looks at
FilterWheels ==
    {Wheel("dir", "none", MetadataFile(TRUE, TRUE, rp),
           WheelFile("1.0", true, tags), <<>>, TRUE, FALSE, FALSE) :
        rp \in RequiresPythons, tags \in TagLists}

(* --------------------------- main()'s state --------------------------- *)

VARIABLES
    wheel_file,   \* the contents of the wheel named on the command line
    pc,           \* where main() is: "start", "check", "platform", "version",
                  \* "build", "done", or "aborted" once an exception left main()
    err,          \* the exception that left main() ("none": none did)
    unpacked,     \* wc.unpacked: the listing of the temporary directory
    metadata,     \* wc.metadata
    pi,           \* the index in PLATFORM_PAIRS of the outer loop
    pythons,      \* the list the inner loop iterates
    vi,           \* the index in pythons of the inner loop
    dirs,         \* the output directories that exist
    disk,         \* output path -> "open", "truncated" (left behind by an
                  \* exception) or "complete"; a path not in it does not exist
    tf,           \* the members written to the archive pb builds
    manifest,     \* the record_file calls made on pb, in order
    step,         \* where pb.build() is
    trace         \* the methods build() has completed on pb, in order

vars == <<wheel_file, pc, err, unpacked, metadata, pi, pythons, vi, dirs, disk,
          pb, tf, manifest, step, trace>>

\* no PackageBuilder constructed yet
NoBuilder ==
    [python_version |-> <<>>, platform |-> "None", bitness |-> <<>>,
     files |-> <<>>, has_prefix_files |-> <<>>, py_record_extra |-> <<>>,
     build_no |-> 0]

\* the state main() starts in, the command line naming one of wheels
InitWith(wheels) ==
    /\ wheel_file \in wheels
    /\ pc = "start"
    /\ err = "none"
    /\ unpacked = <<>>
    /\ metadata = <<>>
    /\ pi = 0
    /\ pythons = <<>>
    /\ vi = 0
    /\ dirs = {}
    /\ disk = <<>>
    /\ pb = NoBuilder
    /\ tf = <<>>
    /\ manifest = <<>>
    /\ step = "None"
    /\ trace = <<>>

Init == InitWith(StructWheels \cup ContentWheels \cup EntryPointWheels)

InitFilter == InitWith(FilterWheels)

\* the build state the PackageBuilder methods act on
BuildState == [pb |-> pb, tf |-> tf, manifest |-> manifest, err |-> "none"]

\* wc = WheelContents(args.wheel_file)
OpenWheel ==
    /\ pc = "start"
    /\ unpacked' = wheel_file
    /\ IF wheel_contents_error(wheel_file) # "none"
       THEN /\ pc' = "aborted"
            /\ err' = wheel_contents_error(wheel_file)
            /\ metadata' = metadata
       ELSE /\ pc' = "check"
            /\ err' = err
            /\ metadata' = read_metadata(Child(find_dist_info(wheel_file), <<"METADATA">>))
    /\ UNCHANGED <<wheel_file, pi, pythons, vi, dirs, disk, pb, tf, manifest, step, trace>>

\* wc.check()
Check ==
    /\ pc = "check"
    /\ IF check(unpacked, metadata) # "none"
       THEN pc' = "aborted" /\ err' = check(unpacked, metadata) /\ pi' = pi
       ELSE pc' = "platform" /\ err' = err /\ pi' = 1
    /\ UNCHANGED <<wheel_file, unpacked, metadata, pythons, vi, dirs, disk, pb, tf,
                   manifest, step, trace>>

\* one turn of the outer loop: d.mkdir(), then the call of
\* filter_compatible_pythons() that the inner loop iterates
StartPlatform ==
    /\ pc = "platform"
    /\ pi <= Len(PLATFORM_PAIRS)
    /\ dirs' = dirs \cup {output_dir(PLATFORM_PAIRS[pi])}
    /\ pythons' = filter_compatible_pythons(unpacked, metadata)
    /\ vi' = 1
    /\ pc' = "version"
    /\ UNCHANGED <<wheel_file, err, unpacked, metadata, pi, disk, pb, tf, manifest,
                   step, trace>>

\* the outer loop is over: wc.td.cleanup()
Finish ==
    /\ pc = "platform"
    /\ pi > Len(PLATFORM_PAIRS)
    /\ pc' = "done"
    /\ unpacked' = <<>>
    /\ UNCHANGED <<wheel_file, err, metadata, pi, pythons, vi, dirs, disk, pb, tf,
                   manifest, step, trace>>

\* one turn of the inner loop up to the call of pb.build(f): the
\* PackageBuilder is constructed and the output file opened for writing
NewBuild ==
    /\ pc = "version"
    /\ vi <= Len(pythons)
    /\ pb' = new_builder(pythons[vi], PLATFORM_PAIRS[pi].platform,
                         PLATFORM_PAIRS[pi].bitness)
    /\ disk' = (output_path(PLATFORM_PAIRS[pi], pythons[vi], metadata) :> "open") @@ disk
    /\ tf' = <<>>
    /\ manifest' = <<>>
    /\ step' = "Init"
    /\ trace' = <<>>
    /\ pc' = "build"
    /\ UNCHANGED <<wheel_file, err, unpacked, metadata, pi, pythons, vi, dirs>>

\* the inner loop is over
NextPlatform ==
    /\ pc = "version"
    /\ vi > Len(pythons)
    /\ pi' = pi + 1
    /\ pc' = "platform"
    /\ UNCHANGED <<wheel_file, err, unpacked, metadata, pythons, vi, dirs, disk, pb,
                   tf, manifest, step, trace>>

\* one call made by build(): r is the build state the method leaves, name the
\* method.  An exception leaves main() through both with blocks, which close
\* the archive and the file where they are.
BuildStep(at, name, r) ==
    /\ pc = "build"
    /\ step = at
    /\ pb' = r.pb
    /\ tf' = r.tf
    /\ manifest' = r.manifest
    /\ IF r.err # "none"
       THEN /\ pc' = "aborted"
            /\ err' = r.err
            /\ disk' = [disk EXCEPT
                          ![output_path(PLATFORM_PAIRS[pi], pythons[vi], metadata)] =
                              "truncated"]
            /\ UNCHANGED <<step, trace>>
       ELSE /\ step' = build_next(step)
            /\ trace' = Append(trace, name)
            /\ UNCHANGED <<pc, err, disk>>
    /\ UNCHANGED <<wheel_file, unpacked, metadata, pi, pythons, vi, dirs>>

AddModule == BuildStep("Init", "add_module", add_module(BuildState, unpacked))

CreateScripts ==
    BuildStep("ModulesCopied", "create_scripts", create_scripts(BuildState, unpacked))

WritePep376Record ==
    BuildStep("ScriptsCreated", "write_pep376_record",
              write_pep376_record(BuildState, unpacked))

WriteIndex == BuildStep("RecordWritten", "write_index", write_index(BuildState, metadata))

WriteHasPrefixList ==
    BuildStep("IndexWritten", "write_has_prefix_list", write_has_prefix_list(BuildState))

WriteFilesList ==
    BuildStep("PrefixListWritten", "write_files_list", write_files_list(BuildState))

\* build() returns: the archive and the output file are closed, and the
\* inner loop moves on
CloseBuild ==
    /\ pc = "build"
    /\ step = "FileListWritten"
    /\ step' = build_next(step)
    /\ disk' = [disk EXCEPT
                  ![output_path(PLATFORM_PAIRS[pi], pythons[vi], metadata)] = "complete"]
    /\ vi' = vi + 1
    /\ pc' = "version"
    /\ UNCHANGED <<wheel_file, err, unpacked, metadata, pi, pythons, dirs, pb, tf,
                   manifest, trace>>

Next ==
    \/ OpenWheel
    \/ Check
    \/ StartPlatform
    \/ Finish
    \/ NewBuild
    \/ NextPlatform
    \/ AddModule
    \/ CreateScripts
    \/ WritePep376Record
    \/ WriteIndex
    \/ WriteHasPrefixList
    \/ WriteFilesList
    \/ CloseBuild

Spec == Init /\ [][Next]_vars

\* main() as far as the first call of filter_compatible_pythons()
NextFilter ==
    \/ OpenWheel
    \/ Check
    \/ StartPlatform

SpecFilter == InitFilter /\ [][NextFilter]_vars

(* ===================== what the claims speak of ======================= *)

\* the names of the members of the archive being built
MemberNames == {tf[i].name : i \in 1..Len(tf)}

\* the names of its regular-file members
FileMemberNames == {tf[i].name : i \in {j \in 1..Len(tf) : ~tf[j].isdir}}

\* whether the archive holds a member of that name
HasMember(name) == \E i \in 1..Len(tf) : tf[i].name = name

\* the contents of the last member written under that name
MemberData(name) ==
    tf[CHOOSE i \in 1..Len(tf) :
          tf[i].name = name /\ \A j \in (i + 1)..Len(tf) : tf[j].name # name].data

\* the lines of a text: what '\n'.join(lines) was given
LinesOf(text) == IF text = <<>> THEN <<>> ELSE Split(text, "\n")

InfoIndex == <<"info", "/", "index", ".json">>

InfoHasPrefix == <<"info", "/", "has_prefix">>

InfoFiles == <<"info", "/", "files">>

\* the paths of the record_file calls so far, in call order
RecordedPaths == [i \in 1..Len(manifest) |-> manifest[i].path]

\* the paths recorded with has_prefix=True, in call order
FlaggedPaths ==
    LET flagged == SelectSeq(manifest, LAMBDA e : e.has_prefix)
    IN  [i \in 1..Len(flagged) |-> flagged[i].path]

\* the .dist-info directory of the input wheel, when it has exactly one
InputDistInfos == SelectSeq(wheel_file, LAMBDA x : EndsWith(x.name, <<".dist-info">>))

InputDatas == SelectSeq(wheel_file, LAMBDA x : EndsWith(x.name, <<".data">>))

WellFormedDistInfo == Len(InputDistInfos) = 1 /\ InputDistInfos[1].isdir

\* the header lines of a METADATA or WHEEL file: those before the blank line
Headers(file) ==
    LET blank == {i \in 1..Len(file.data) : file.data[i] = <<"\n">>}
        last  == IF blank = {} THEN Len(file.data)
                 ELSE (CHOOSE i \in blank : \A j \in blank : i <= j) - 1
    IN  SubSeq(file.data, 1, last)

\* the values the file declares for key, in file order
Declared(file, key) ==
    LET ls == SelectSeq(Headers(file), LAMBDA l : StartsWith(l, <<key, ":", " ">>))
    IN  [i \in 1..Len(ls) |-> SubSeq(ls[i], 4, Len(ls[i]) - 1)]

InputFile(name) == Child(InputDistInfos[1], name)

\* the options of [console_scripts] as entry_points.txt declares them
DeclaredEntryPoints ==
    IF ~WellFormedDistInfo \/ ~HasChild(InputDistInfos[1], <<"entry_points", ".txt">>)
    THEN <<>>
    ELSE LET ls == InputFile(<<"entry_points", ".txt">>).data
         IN  IF ls[1].key # <<"console_scripts">> THEN <<>>
             ELSE [i \in 1..(Len(ls) - 1) |-> <<ls[i + 1].key, ls[i + 1].value>>]

HasEntryPointsFile ==
    WellFormedDistInfo /\ HasChild(InputDistInfos[1], <<"entry_points", ".txt">>)

\* the input wheel fails one of the checks of WheelContents validation
FailsValidation ==
    \/ Len(InputDistInfos) # 1
    \/ \E i \in 1..Len(InputDistInfos) : ~InputDistInfos[i].isdir
    \/ Len(InputDatas) > 1
    \/ \E i \in 1..Len(InputDatas) : ~InputDatas[i].isdir
    \/ Declared(InputFile(<<"WHEEL">>), "Wheel-Version") # << <<"1.0">> >>
    \/ Lower(Declared(InputFile(<<"WHEEL">>), "Root-Is-Purelib")[1]) # true
    \/ Declared(InputFile(<<"METADATA">>), "Name") = <<>>
    \/ Declared(InputFile(<<"METADATA">>), "Version") = <<>>

\* nothing of any BuildTarget exists
NothingTouched == dirs = {} /\ pb = NoBuilder /\ DOMAIN disk = {} /\ tf = <<>>

(* ============================== claims ================================ *)

(* C3.  A wheel that fails validation (no, several or a non-directory      *)
(* .dist-info, several or a non-directory .data, Wheel-Version other than  *)
(* 1.0, Root-Is-Purelib other than true, no Name or no Version) makes the  *)
(* run abort before any BuildTarget is touched: main() never gets past     *)
(* check(), and no output directory, PackageBuilder or output file exists. *)
C3_AbortBeforeAnyTarget ==
    FailsValidation =>
        /\ pc \in {"start", "check", "aborted"}
        /\ pc = "aborted" => err # "none"
        /\ NothingTouched

\* a wheel declaring Wheel-Version 2.0 was rejected by check()
C3_Witness ==
    /\ pc = "aborted"
    /\ err = "BadWheelError: wheel2conda only knows about wheel format 1.0"
    /\ FailsValidation
    /\ NothingTouched

(* C8.  A build runs add_module, create_scripts, write_pep376_record,      *)
(* write_index, write_has_prefix_list, write_files_list in that order,     *)
(* each once, through the states Init .. FileListWritten, Done; Done is    *)
(* reached only after all six; a step that fails ends the build where it   *)
(* is, and nothing runs after it.                                          *)
StepOrder ==
    <<"add_module", "create_scripts", "write_pep376_record", "write_index",
      "write_has_prefix_list", "write_files_list">>

StateOrder ==
    <<"Init", "ModulesCopied", "ScriptsCreated", "RecordWritten", "IndexWritten",
      "PrefixListWritten", "FileListWritten", "Done">>

C8_StateMatchesTrace ==
    pb # NoBuilder =>
        /\ IsPrefix(trace, StepOrder)
        /\ step = "Done" => trace = StepOrder
        /\ step # "Done" => step = StateOrder[Len(trace) + 1]
        /\ pc = "aborted" => step # "Done" /\ step # "FileListWritten"

C8_StepByStep ==
    /\ pc = "aborted" => UNCHANGED vars
    /\ pc' = "aborted" => trace' = trace /\ step' = step
    /\ trace' # trace =>
          \/ trace' = <<>> /\ step' = "Init"
          \/ trace' = Append(trace, StepOrder[Len(trace) + 1])
    /\ (step' = "Done" /\ step # "Done") => trace = StepOrder /\ step = "FileListWritten"

\* C8: in every state the build state is the one after the steps run so far,
\* and every transition runs the next step of the order or ends the build
C8_BuildOrder == []C8_StateMatchesTrace /\ [][C8_StepByStep]_vars

\* a build reached Done
C8_Witness == step = "Done" /\ trace = StepOrder /\ pc = "version"

(* C10.  In every state has_prefix_files is files with entries left out,   *)
(* every path of py_record_extra is in files, and files is exactly the     *)
(* record_file calls made on this PackageBuilder, in order; a step of a    *)
(* build only appends to files; and every new PackageBuilder starts with   *)
(* the three lists empty.                                                  *)
C10_Tracked ==
    /\ IsSubSeq(pb.has_prefix_files, pb.files)
    /\ \A i \in 1..Len(pb.py_record_extra) : pb.py_record_extra[i][1] \in Range(pb.files)
    /\ pb.files = RecordedPaths

C10_AppendOnly ==
    IF pc = "version" /\ pc' = "build"
    THEN pb'.files = <<>> /\ pb'.has_prefix_files = <<>> /\ pb'.py_record_extra = <<>>
    ELSE /\ IsPrefix(pb.files, pb'.files)
         /\ IsPrefix(pb.has_prefix_files, pb'.has_prefix_files)
         /\ IsPrefix(pb.py_record_extra, pb'.py_record_extra)

\* C10: the three lists are tracked consistently in every state, only ever
\* grow during a build, and are empty when a new PackageBuilder is made
C10_TrackingInvariant == []C10_Tracked /\ [][C10_AppendOnly]_vars

\* a later BuildTarget's builder holding launchers of its own
C10_Witness ==
    /\ Cardinality(DOMAIN disk) >= 2
    /\ pc = "build"
    /\ Len(pb.has_prefix_files) = 2
    /\ Len(pb.py_record_extra) = 4
    /\ Len(pb.files) > 4

\* the archive path of the rewritten RECORD
RecordPath ==
    site_packages_path(pb) \o InputDistInfos[1].name \o <<"/", "RECORD">>

\* a recorded path that exclude_record kept out of the archive for good: a
\* .dist-info file whose name ends in RECORD and that is not RECORD itself,
\* which write_pep376_record adds later
DroppedByFilter(p) ==
    /\ StartsWith(p, site_packages_path(pb) \o InputDistInfos[1].name \o <<"/">>)
    /\ EndsWith(p, <<"RECORD">>)
    /\ p # RecordPath

HasBadEntryPoint ==
    \E i \in 1..Len(DeclaredEntryPoints) : Count(DeclaredEntryPoints[i][2], ":") # 1

(* C2.  A console_scripts value without exactly one ':' makes the run      *)
(* abort, and afterwards no output file exists at any destination path,    *)
(* not even for the BuildTarget that was being built.                      *)
C2_NoArchiveAfterBadEntryPoint ==
    HasBadEntryPoint =>
        /\ pc # "done"
        /\ pc = "aborted" => DOMAIN disk = {}

\* one line of info/has_prefix
PrefixLine(path) == <<"/opt/anaconda1anaconda2anaconda3", " text ">> \o path

\* the lines of info/has_prefix are the flagged paths, in recording order
C4_LinesAreFlagged ==
    LinesOf(MemberData(InfoHasPrefix)) =
        [i \in 1..Len(FlaggedPaths) |-> PrefixLine(FlaggedPaths[i])]

(* C4, as claimed.  The lines of info/has_prefix are the paths recorded    *)
(* with has_prefix=True, in recording order, formatted '<placeholder> text *)
(* <path>', and no path recorded with has_prefix=False has a line.         *)
C4_NoUnflaggedPath ==
    HasMember(InfoHasPrefix) =>
        /\ C4_LinesAreFlagged
        /\ \A i \in 1..Len(manifest) :
              ~manifest[i].has_prefix =>
                  PrefixLine(manifest[i].path) \notin Range(LinesOf(MemberData(InfoHasPrefix)))

(* C4, amended.  The lines of info/has_prefix are the paths recorded with  *)
(* has_prefix=True, in recording order, formatted '<placeholder> text      *)
(* <path>'; a path recorded with has_prefix=False has a line only if the   *)
(* same path was also recorded with has_prefix=True.                       *)
C4_PrefixList ==
    HasMember(InfoHasPrefix) =>
        /\ C4_LinesAreFlagged
        /\ \A i \in 1..Len(manifest) :
              (~manifest[i].has_prefix /\ manifest[i].path \notin Range(FlaggedPaths)) =>
                  PrefixLine(manifest[i].path) \notin Range(LinesOf(MemberData(InfoHasPrefix)))

\* a finished Windows archive: two flagged scripts, two unflagged .exe
C4_Witness ==
    /\ step = "Done"
    /\ pb.platform = "win"
    /\ Len(FlaggedPaths) = 2
    /\ Len(LinesOf(MemberData(InfoHasPrefix))) = 2
    /\ \E i \in 1..Len(manifest) :
          ~manifest[i].has_prefix /\ EndsWith(manifest[i].path, <<".exe">>)

\* what the input wheel declares
DeclaredRequiresPython == Declared(InputFile(<<"METADATA">>), "Requires-Python")

DeclaredPyTags == {t[1] : t \in Range(Declared(InputFile(<<"WHEEL">>), "Tag"))}

\* Requires-Python values that the prefix rules read as 3 or newer
RequiresNewer ==
    {<<"3">>, <<"3", ".", "4">>, <<">", "3">>, <<">", "=", "3">>, <<">", "=", "3", ".", "3">>}

\* Requires-Python values that the rules read as older than 3
RequiresOlder == {<<"<", "3">>, <<"<", "3", ".", "0">>}

Py3Only == << <<"3", ".", "5">>, <<"3", ".", "4">> >>

Py2Only == << <<"2", ".", "7">> >>

AllPythons == << <<"3", ".", "5">>, <<"3", ".", "4">>, <<"2", ".", "7">> >>

(* C5.  filter_compatible_pythons returns [3.5, 3.4] when Requires-Python  *)
(* is present and asks for 3 or newer, [2.7] when it asks for older than   *)
(* 3, whatever the tags; otherwise [3.5, 3.4] when every WHEEL tag is py3, *)
(* [2.7] when every tag is py2, and [3.5, 3.4, 2.7] in all other cases.    *)
C5_FilterPolicy ==
    pc = "version" =>
        pythons =
            IF DeclaredRequiresPython # <<>> /\ DeclaredRequiresPython[1] \in RequiresNewer
            THEN Py3Only
            ELSE IF DeclaredRequiresPython # <<>>
                    /\ DeclaredRequiresPython[1] \in RequiresOlder
            THEN Py2Only
            ELSE IF DeclaredPyTags = {"py3"} THEN Py3Only
            ELSE IF DeclaredPyTags = {"py2"} THEN Py2Only
            ELSE AllPythons

\* Requires-Python >=3 won over py2 tags
C5_Witness ==
    /\ pc = "version"
    /\ DeclaredRequiresPython = << <<">", "=", "3">> >>
    /\ DeclaredPyTags = {"py2"}
    /\ pythons = Py3Only

\* a RECORD path joined to the site-packages root and normalised
Resolve(path) == NormPath(PosixJoin(site_packages_path(pb), <<path>>))

DataPrefix == <<"Foo-1.0", ".data", "/", "data", "/">>

(* C6.  In the rewritten RECORD every source row '<x>.data/data/<rest>'    *)
(* has a path that, joined to the target's site-packages root and          *)
(* normalised, is '<rest>', the archive path of the copied data file, with *)
(* its other columns unchanged; every other source row is unchanged; the   *)
(* launcher rows follow all source rows, and each resolves to the          *)
(* launcher's archive path under the scripts root.                         *)
C6_RecordResolves ==
    (WellFormedDistInfo /\ pb # NoBuilder /\ HasMember(RecordPath)) =>
        LET src   == InputFile(<<"RECORD">>).data
            out   == MemberData(RecordPath)
            extra == pb.py_record_extra
        IN  /\ Len(out) = Len(src) + Len(extra)
            /\ \A i \in 1..Len(src) :
                  IF StartsWith(src[i][1], DataPrefix)
                  THEN /\ Resolve(out[i][1]) = SubSeq(src[i][1], 6, Len(src[i][1]))
                       /\ Resolve(out[i][1]) \in FileMemberNames
                       /\ Tail(out[i]) = Tail(src[i])
                  ELSE out[i] = src[i]
            /\ \A j \in 1..Len(extra) :
                  /\ Resolve(out[Len(src) + j][1]) = extra[j][1]
                  /\ StartsWith(extra[j][1], scripts_path(pb))
                  /\ extra[j][1] \in FileMemberNames
                  /\ Tail(out[Len(src) + j]) = Tail(extra[j])

\* a unix RECORD with a nested data row and a launcher row
C6_Witness ==
    /\ WellFormedDistInfo
    /\ pb.platform = "osx"
    /\ HasMember(RecordPath)
    /\ \E i \in 1..Len(MemberData(RecordPath)) :
          MemberData(RecordPath)[i][1] = <<"..", "/", "..", "/", "..", "/", "bin", "/">> \o foo
    /\ Len(pb.py_record_extra) = 2

\* the launcher script that create_scripts writes for a key, by platform
LauncherScript(key) ==
    IF pb.platform = "win" THEN <<"Scripts", "/">> \o key \o <<"-script", ".py">>
    ELSE <<"bin", "/">> \o key

(* C7.  Console entry-point keys are case-sensitive and kept in            *)
(* declaration order: each declared key k yields a launcher named exactly  *)
(* k, keys that differ only in case yield two launchers, and without an    *)
(* entry_points.txt there is no launcher and no error.                     *)
C7_CaseSensitiveKeys ==
    /\ (pc = "build" /\ step = "ScriptsCreated") =>
          pb.has_prefix_files =
              [i \in 1..Len(DeclaredEntryPoints) |-> LauncherScript(DeclaredEntryPoints[i][1])]
    /\ (\A i, j \in 1..Len(DeclaredEntryPoints) :
            i # j => DeclaredEntryPoints[i][1] # DeclaredEntryPoints[j][1])
          => err # "DuplicateOptionError"
    /\ (~HasEntryPointsFile /\ pb # NoBuilder) =>
          pb.has_prefix_files = <<>> /\ err \notin {"ValueError", "KeyError"}

\* the bytes of the launcher stub for a bitness
StubBytes == <<"cli-", IF pb.bitness = <<"64">> THEN "x64" ELSE "x86", ".exe">>

\* what one entry point named n must add, by platform
ArtifactEntries(n) ==
    IF pb.platform = "win"
    THEN <<[path |-> <<"Scripts", "/">> \o n \o <<"-script", ".py">>, has_prefix |-> TRUE],
           [path |-> <<"Scripts", "/">> \o n \o <<".exe">>, has_prefix |-> FALSE]>>
    ELSE <<[path |-> <<"bin", "/">> \o n, has_prefix |-> TRUE]>>

ExpectedArtifacts ==
    Concat([i \in 1..Len(DeclaredEntryPoints) |-> ArtifactEntries(DeclaredEntryPoints[i][1])])

(* C9.  create_scripts records, for each console entry point named n, on   *)
(* Windows 'Scripts/n-script.py' flagged and then 'Scripts/n.exe' not      *)
(* flagged, the .exe holding the x64 stub when bitness is 64 and the x86   *)
(* stub otherwise, with a RECORD row of the hash and length of those       *)
(* bytes; on linux and osx 'bin/n' flagged and nothing else.               *)
C9_ArtifactsAdded ==
    (step = "ModulesCopied" /\ step' = "ScriptsCreated") =>
        /\ manifest' = manifest \o ExpectedArtifacts
        /\ Len(tf') = Len(tf) + Len(ExpectedArtifacts)
        /\ \A i \in 1..Len(ExpectedArtifacts) :
              /\ tf'[Len(tf) + i].name = ExpectedArtifacts[i].path
              /\ pb'.py_record_extra[i][1] = ExpectedArtifacts[i].path
              /\ ~ExpectedArtifacts[i].has_prefix =>
                    /\ tf'[Len(tf) + i].data = StubBytes
                    /\ pb'.py_record_extra[i] =
                          <<ExpectedArtifacts[i].path,
                            <<"sha256=">> \o Digest(StubBytes), ByteLen(StubBytes)>>
        /\ Len(pb'.py_record_extra) = Len(ExpectedArtifacts)

\* C9: every create_scripts step adds exactly the artifacts of the declared
\* entry points, named, flagged and hashed as stated
C9_LauncherArtifacts == [][C9_ArtifactsAdded]_vars

=============================================================================
